---- MODULE Spec2Model ----
(***************************************************************************)
(* The quality-assurance check framework of developers_chamber             *)
(* (scripts/qa.py): QAError, QACheck and its four variants, and            *)
(* QACheckRunner, run against a model of the git working copy and of the   *)
(* external commands the checks call.                                      *)
(***************************************************************************)
EXTENDS Integers, Sequences, FiniteSets, TLC

\* ------------------------------------------------------------------ bounds
\* Longest collection of checks handed to QACheckRunner.
MaxChecks == 2
\* Longest text (in characters of Alphabet) a command writes to a stream.
MaxLen == 2

\* ----------------------------------------------------------------- strings
\* Text is a sequence of characters.  SENTINEL stands for the whole text
\* 'No changes detected' (it holds no newline and no leading or trailing
\* blank), "x" for any other visible character.
SENTINEL == "No changes detected"
NL == "\n"
Alphabet == {SENTINEL, "x", NL, " "}
Whitespace == {NL, " "}

RECURSIVE LStrip(_)
LStrip(s) ==
    IF s = <<>> THEN <<>>
    ELSE IF Head(s) \in Whitespace THEN LStrip(Tail(s)) ELSE s

RECURSIVE RStrip(_)
RStrip(s) ==
    IF s = <<>> THEN <<>>
    ELSE IF s[Len(s)] \in Whitespace THEN RStrip(SubSeq(s, 1, Len(s) - 1)) ELSE s

\* str.strip()
Strip(s) == RStrip(LStrip(s))

\* output.split('\n')[-1]: the text after the last newline.
RECURSIVE LastLine(_)
LastLine(s) ==
    IF s = <<>> THEN <<>>
    ELSE IF s[Len(s)] = NL THEN <<>>
    ELSE Append(LastLine(SubSeq(s, 1, Len(s) - 1)), s[Len(s)])

\* '\n'.join(lines)
RECURSIVE JoinLines(_)
JoinLines(ls) ==
    IF ls = <<>> THEN <<>>
    ELSE IF Len(ls) = 1 THEN ls[1]
    ELSE ls[1] \o <<NL>> \o JoinLines(Tail(ls))

RECURSIVE TextsUpTo(_)
TextsUpTo(n) ==
    IF n = 0 THEN {<<>>}
    ELSE LET shorter == TextsUpTo(n - 1)
         IN  shorter \cup {Append(t, c) : t \in {u \in shorter : Len(u) = n - 1}, c \in Alphabet}

Texts == TextsUpTo(MaxLen)

\* ------------------------------------------------------------------- paths
\* A path is a sequence of path characters; "migrations", ".py", "django.po"
\* and "add_x" stand for those runs of characters, "0" and "1" for digits.
PyA == <<"a", ".py">>
PyB == <<"b", ".py">>
Po == <<"locale", "/", "django.po">>
MigOk == <<"migrations", "/", "0", "0", "0", "1", ".py">>
MigBad == <<"migrations", "/", "add_x", ".py">>
\* A file of a directory that is not `migrations` but whose name ends so.
MigAlien == <<"old_", "migrations", "/", "add_x", ".py">>
\* A source file whose name holds a blank: `my a.py`.
PySpaced == <<"my", " ", "a", ".py">>
TrackedFiles == {PyA, PyB, PySpaced, Po, MigOk, MigBad, MigAlien}
Digits == {"0", "1"}

\* Where a pattern's `$` can match in text of length n: at the end, and
\* before a newline that ends the text.
Ends(text) ==
    {Len(text)} \cup
    (IF text # <<>> /\ text[Len(text)] = NL THEN {Len(text) - 1} ELSE {})

\* re.search(r'\.py$', str(path))
IsPythonFile(path) == \E n \in Ends(path) : n >= 1 /\ path[n] = ".py"

\* re.search(r'django\.po$', path)
IsTranslationFile(path) == \E n \in Ends(path) : n >= 1 /\ path[n] = "django.po"

\* match = re.search(r'migrations\/([^\/]+)\.py$', path)
\* bool(match and not re.search(r'^[0-9]{4}$', match.group(1)))
IsMigrationFileWithWrongName(path) ==
    \E k \in 1..Len(path), n \in Ends(path) :
        /\ path[k] = "migrations"
        /\ k + 3 <= n
        /\ path[k + 1] = "/"
        /\ path[n] = ".py"
        /\ \A j \in (k + 2)..(n - 1) : path[j] # "/"
        /\ LET name == SubSeq(path, k + 2, n - 1)
           IN  ~(\E m \in Ends(name) : m = 4 /\ \A j \in 1..4 : name[j] \in Digits)

\* ------------------------------------------------------------- environment
\* The checks a runner can be built from (the subclasses of QACheck).
Variants == {"MissingMigrations", "MigrationFilenames", "MissingTranslations", "ImportOrder"}
Commands == {"make-migration", "make-msgs", "isort"}

RECURSIVE SeqsUpTo(_, _)
SeqsUpTo(S, n) ==
    IF n = 0 THEN {<<>>}
    ELSE LET shorter == SeqsUpTo(S, n - 1)
         IN  shorter \cup {Append(q, x) : q \in {u \in shorter : Len(u) = n - 1}, x \in S}

Injective(q) == \A a, b \in 1..Len(q) : q[a] = q[b] => a = b

\* Collections of distinct checks, in every order.
CheckLists == {q \in SeqsUpTo(Variants, MaxChecks) : Injective(q)}

\* Contents a tracked file can have: what HEAD holds, that text after the
\* import sorter rewrote it, a developer's own edit, and the catalog as the
\* regeneration command rewrites it (comment lines only, a comment line
\* whose text mentions `-msgid`, or entries too).
Contents == {"head", "isorted", "dev", "regen_comments", "regen_mention", "regen_entries"}

Clean == [f \in TrackedFiles |-> "head"]

\* The committed diff of the active branch against the merge-base with the
\* default branch: entries (b_path, new_file), in diff order.
Entry(p, n) == [b_path |-> p, new_file |-> n]
BranchDiffs ==
    { <<>>,
      <<Entry(Po, FALSE)>>,
      <<Entry(PyA, FALSE)>>,
      <<Entry(PyA, FALSE), Entry(PyB, TRUE)>>,
      <<Entry(MigOk, TRUE), Entry(MigBad, TRUE), Entry(PyA, FALSE)>>,
      <<Entry(MigBad, FALSE), Entry(MigOk, TRUE)>>,
      <<Entry(MigOk, TRUE), Entry(MigAlien, TRUE)>>,
      <<Entry(PySpaced, FALSE)>> }

\* What stays the same while the runner runs: the remote and the history
\* (vcs), whether `git stash save` works, which commands exit non-zero, what
\* the migration dry-run prints, which files the import sorter would rewrite,
\* what the catalog regeneration writes, the committed diff of the branch,
\* and the developer's own uncommitted edit of a.py.
World(v, s, f, m, n, c, d, e) ==
    [vcs |-> v, stashOk |-> s, failing |-> f, mmOut |-> m,
     needsSort |-> n, catalog |-> c, diff |-> d, dev |-> e]

DefaultDiff == <<Entry(PyA, FALSE), Entry(PyB, TRUE)>>

\* The failures vary, the repository is the usual one.
FailureWorlds ==
    { World(v, s, f, m, {PyA}, "uptodate", DefaultDiff, "none") :
        v \in {"ok", "no_origin_head", "no_merge_base"}, s \in BOOLEAN,
        f \in {{}} \cup {{c} : c \in Commands},
        m \in {<<SENTINEL>>, <<"x">>} }

\* The text of the commands varies.
TextWorlds ==
    { World("ok", TRUE, f, m, {PyA}, "uptodate", DefaultDiff, "none") :
        f \in {{}, {"make-migration"}}, m \in Texts }

\* The repository varies, nothing fails.
RepoWorlds ==
    { World("ok", TRUE, {}, <<SENTINEL>>, n, c, d, e) :
        n \in SUBSET {PyA, PyB},
        c \in {"uptodate", "regen_comments", "regen_mention", "regen_entries"},
        d \in BranchDiffs, e \in {"none", "unstaged", "staged"} }

Worlds == FailureWorlds \cup TextWorlds \cup RepoWorlds

\* The index and the working tree the developer starts the runner on.
InitialIndex(w) == IF w.dev = "staged" THEN [Clean EXCEPT ![PyA] = "dev"] ELSE Clean
InitialWork(w) == IF w.dev = "none" THEN Clean ELSE [Clean EXCEPT ![PyA] = "dev"]

\* ------------------------------------------------------------- exceptions
NoExc == [kind |-> "none", msg |-> "", output |-> <<>>]

\* QAError.__init__: the message, and the output stripped.
QAError(msg, output) == [kind |-> "QAError", msg |-> msg, output |-> Strip(output)]

\* Any exception that is not a QAError (GitCommandError, IndexError,
\* AttributeError, ...).
OtherError(name) == [kind |-> name, msg |-> name, output |-> <<>>]

\* str(CalledProcessError)
CalledProcessErrorText(name) ==
    CASE name = "make-migration" -> "Command 'pydev make-migration --dry-run' returned non-zero exit status 1."
      [] name = "make-msgs" -> "Command 'pydev make-msgs' returned non-zero exit status 1."
      [] name = "isort" -> "Command 'isort ...' returned non-zero exit status 1."
      [] OTHER -> "Command returned non-zero exit status 1."

\* ----------------------------------------------------- external commands
OkTexts == {<<>>, <<"x", NL>>}
ErrTexts == {<<>>, <<"x">>}

\* One execution of a command: its exit status and what it wrote to its
\* standard output and to its standard error.
CommandRuns(w, name) ==
    { [name |-> name, argv |-> <<>>,
       exit |-> IF name \in w.failing THEN 1 ELSE 0, out |-> o, err |-> e] :
        o \in (IF name = "make-migration" THEN {w.mmOut}
               ELSE IF name \in w.failing THEN Texts ELSE OkTexts),
        e \in ErrTexts }

NoCommand == [name |-> "none", argv |-> <<>>, exit |-> 0, out |-> <<>>, err |-> <<>>]

\* The execution r of a command, given the words argv after its name.
WithArgv(r, argv) ==
    [name |-> r.name, argv |-> argv, exit |-> r.exit, out |-> r.out, err |-> r.err]

\* ' '.join(paths): the paths with one blank between them.
RECURSIVE JoinBlank(_)
JoinBlank(paths) ==
    IF paths = <<>> THEN <<>>
    ELSE IF Len(paths) = 1 THEN paths[1]
    ELSE paths[1] \o <<" ">> \o JoinBlank(Tail(paths))

\* The words the shell of check_output(command, shell=True) splits an
\* unquoted text into: the runs of characters between blanks and newlines.
RECURSIVE ShellWords(_)
ShellWords(text) ==
    IF text = <<>> THEN <<>>
    ELSE IF text[Len(text)] \in Whitespace THEN ShellWords(SubSeq(text, 1, Len(text) - 1))
    ELSE LET before == ShellWords(SubSeq(text, 1, Len(text) - 1))
         IN  IF Len(text) = 1 \/ text[Len(text) - 1] \in Whitespace
             THEN Append(before, <<text[Len(text)]>>)
             ELSE [before EXCEPT ![Len(before)] = Append(@, text[Len(text)])]

\* subprocess.check_output captures the standard output alone; .output of
\* CalledProcessError is that capture.
CapturedOutput(r) == r.out

\* _run_command without its `except CalledProcessError` clause.
RunCommandNoHandler(r) ==
    IF r.exit = 0
    THEN [raised |-> NoExc, value |-> Strip(CapturedOutput(r))]
    ELSE [raised |-> OtherError("CalledProcessError"), value |-> <<>>]

\* QACheck._run_command: the stripped output, or QAError(str(ex), ex.output).
RunCommand(r) ==
    IF r.exit = 0
    THEN [raised |-> NoExc, value |-> Strip(CapturedOutput(r))]
    ELSE [raised |-> QAError(CalledProcessErrorText(r.name), CapturedOutput(r)), value |-> <<>>]

\* --------------------------------------------------- repository accessor
Returned(v) == [raised |-> NoExc, value |-> v]
Raised(e) == [raised |-> e, value |-> <<>>]

\* `git symbolic-ref refs/remotes/origin/HEAD`: the full name of the branch
\* origin/HEAD points to, or a fatal error when there is no such reference.
REMOTE_PREFIX == "refs/remotes/origin/"
SymbolicRef(w) ==
    IF w.vcs = "no_origin_head"
    THEN [name |-> "symbolic-ref", argv |-> <<>>, exit |-> 128, out |-> <<>>, err |-> <<"x">>]
    ELSE [name |-> "symbolic-ref", argv |-> <<>>, exit |-> 0,
          out |-> <<REMOTE_PREFIX, "master", NL>>, err |-> <<>>]

\* sed 's@^refs/remotes/origin/@@': the prefix goes from the start of each line.
RECURSIVE Sed(_)
Sed(text) ==
    IF text = <<>> THEN <<>>
    ELSE LET before == SubSeq(text, 1, Len(text) - 1)
             last == text[Len(text)]
         IN  IF last = REMOTE_PREFIX /\ (before = <<>> \/ before[Len(before)] = NL)
             THEN Sed(before)
             ELSE Append(Sed(before), last)

\* `left | sed ...` run by the shell: the output is sed's, and so is the
\* exit status, whatever a stage before it exited with.
PipeToSed(left) ==
    [name |-> left.name, argv |-> left.argv, exit |-> 0, out |-> Sed(left.out), err |-> left.err]

\* QACheck._get_default_branch: _run_command on
\* `git symbolic-ref refs/remotes/origin/HEAD | sed ...`.
GetDefaultBranch(w) == RunCommand(PipeToSed(SymbolicRef(w)))

\* QACheck._get_diffs: getattr(refs, name) raises for a name that is no
\* remote branch, merge_base(...)[0] raises when there is no merge-base;
\* neither exception is a QAError.
GetDiffs(w) ==
    LET branch == GetDefaultBranch(w)
    IN  IF branch.raised.kind # "none" THEN Raised(branch.raised)
        ELSE IF branch.value # <<"master">> THEN Raised(OtherError("AttributeError"))
        ELSE IF w.vcs = "no_merge_base" THEN Raised(OtherError("IndexError"))
        ELSE Returned(w.diff)

\* The order git lists paths in.
FileOrder == <<PyA, PyB, Po, MigOk, MigBad, PySpaced, MigAlien>>

\* The patch text git writes for a file whose content went from a to b.
PatchText(a, b) ==
    IF "regen_entries" \in {a, b}
    THEN <<"@@", NL, "+", "#", "x", NL, "+", "msgid", "x", NL, "+", "msgstr", "x">>
    ELSE IF "regen_mention" \in {a, b}
    THEN <<"@@", NL, "-", "#", "x", NL, "+", "#", "x", "-", "msgid", "x">>
    ELSE IF "regen_comments" \in {a, b}
    THEN <<"@@", NL, "-", "#", "x", NL, "+", "#", "x">>
    ELSE <<"@@", NL, "-", "x", NL, "+", "x">>

\* QACheck._get_unstaged: index.diff(None, create_patch=True), the tracked
\* files whose working-tree content differs from the index.
RECURSIVE UnstagedFrom(_, _, _)
UnstagedFrom(idx, wk, k) ==
    IF k > Len(FileOrder) THEN <<>>
    ELSE LET f == FileOrder[k]
         IN  (IF idx[f] # wk[f]
              THEN <<[b_path |-> f, diff |-> PatchText(idx[f], wk[f])]>>
              ELSE <<>>) \o UnstagedFrom(idx, wk, k + 1)

GetUnstaged(idx, wk) == UnstagedFrom(idx, wk, 1)

\* `git stash save --keep-index`: what is staged stays in the index and in
\* the working tree.
StashSaveKeepIndex(idx, wk, st) ==
    IF idx = Clean /\ wk = Clean
    THEN [index |-> idx, work |-> wk, stash |-> st]
    ELSE [index |-> idx, work |-> idx,
          stash |-> <<[index |-> idx, work |-> wk]>> \o st]

\* `git stash save`: with local changes to tracked files, they go onto the
\* stash and index and working tree are reset to HEAD; with none, nothing.
StashSave(idx, wk, st) ==
    IF idx = Clean /\ wk = Clean
    THEN [index |-> idx, work |-> wk, stash |-> st]
    ELSE [index |-> Clean, work |-> Clean,
          stash |-> <<[index |-> idx, work |-> wk]>> \o st]

\* --------------------------------------------------------- external tools
\* The import sorter rewrites in place the files it is given that need it.
Isort(w, files, wk) ==
    [f \in TrackedFiles |->
        IF f \in files /\ f \in w.needsSort /\ wk[f] = "head" THEN "isorted" ELSE wk[f]]

\* The catalog regeneration rewrites the tracked catalog in place.
MakeMsgs(w, wk) ==
    IF w.catalog = "uptodate" THEN wk ELSE [wk EXCEPT ![Po] = w.catalog]

\* ----------------------------------------------------------- the checks
\* The result of a _run_check: the exception it raised (or none), the
\* working tree it leaves, the commands and repository reads it made.
CheckResult(e, wk, o) == [exc |-> e, work |-> wk, ops |-> o]

\* _run_check of the missing-migrations check on the output as captured,
\* without the strip of _run_command.
MissingMigrationsRunCheckUnstripped(wk, r) ==
    LET res == RunCommand(r)
        output == CapturedOutput(r)
        last_line == LastLine(output)
    IN  IF res.raised.kind # "none" THEN CheckResult(res.raised, wk, <<r.name>>)
        ELSE IF last_line # <<SENTINEL>>
        THEN CheckResult(QAError("Found missing migration(s)!", output), wk, <<r.name>>)
        ELSE CheckResult(NoExc, wk, <<r.name>>)

\* MissingMigrationsQACheck._run_check
MissingMigrationsRunCheck(wk, r) ==
    LET res == RunCommand(r)
        output == res.value
        last_line == LastLine(output)
    IN  IF res.raised.kind # "none" THEN CheckResult(res.raised, wk, <<r.name>>)
        ELSE IF last_line # <<SENTINEL>>
        THEN CheckResult(QAError("Found missing migration(s)!", output), wk, <<r.name>>)
        ELSE CheckResult(NoExc, wk, <<r.name>>)

RECURSIVE WrongNameFiles(_)
WrongNameFiles(diffs) ==
    IF diffs = <<>> THEN <<>>
    ELSE (IF Head(diffs).new_file /\ IsMigrationFileWithWrongName(Head(diffs).b_path)
          THEN <<Head(diffs).b_path>> ELSE <<>>) \o WrongNameFiles(Tail(diffs))

\* MigrationFilenamesQACheck._run_check
MigrationFilenamesRunCheck(w, wk) ==
    LET diffs == GetDiffs(w)
        wrong_name_files == WrongNameFiles(diffs.value)
    IN  IF diffs.raised.kind # "none" THEN CheckResult(diffs.raised, wk, <<"get_diffs">>)
        ELSE IF wrong_name_files # <<>>
        THEN CheckResult(QAError("Found wrongly named migration file:",
                                 JoinLines(wrong_name_files)), wk, <<"get_diffs">>)
        ELSE CheckResult(NoExc, wk, <<"get_diffs">>)

\* re.findall(r'(\+|-)(msgstr|msgid)', diff_string)
HasEntryMarker(text) ==
    \E k \in 1..(Len(text) - 1) :
        text[k] \in {"+", "-"} /\ text[k + 1] \in {"msgstr", "msgid"}

RECURSIVE TranslationFiles(_)
TranslationFiles(diffs) ==
    IF diffs = <<>> THEN <<>>
    ELSE (IF IsTranslationFile(Head(diffs).b_path) /\ HasEntryMarker(Head(diffs).diff)
          THEN <<Head(diffs).b_path \o <<NL>> \o Head(diffs).diff>> ELSE <<>>)
         \o TranslationFiles(Tail(diffs))

\* MissingTranslationsQACheck._run_check
MissingTranslationsRunCheck(w, idx, wk, r) ==
    LET res == RunCommand(r)
        after == MakeMsgs(w, wk)
        translation_files == TranslationFiles(GetUnstaged(idx, after))
        o == <<r.name, "get_unstaged">>
    IN  IF res.raised.kind # "none" THEN CheckResult(res.raised, wk, <<r.name>>)
        ELSE IF translation_files # <<>>
        THEN CheckResult(QAError("Found changes in following translation file(s):",
                                 JoinLines(translation_files)), after, o)
        ELSE CheckResult(NoExc, after, o)

RECURSIVE PythonPaths(_)
PythonPaths(diffs) ==
    IF diffs = <<>> THEN <<>>
    ELSE (IF IsPythonFile(Head(diffs).b_path) THEN <<Head(diffs).b_path>> ELSE <<>>)
         \o PythonPaths(Tail(diffs))

Range(q) == {q[k] : k \in 1..Len(q)}

\* The paths the sorter is started on by
\* 'isort {}'.format(' '.join(changed_files)) run through the shell.
IsortArgv(changed_files) == ShellWords(JoinBlank(changed_files))

\* The orders a set can be iterated in.
Orderings(S) ==
    {q \in SeqsUpTo(S, Cardinality(S)) : Len(q) = Cardinality(S) /\ Injective(q)}

\* set(changed_files) & set(diff.b_path for diff in self._get_unstaged())
WrongImportOrderFiles(w, idx, wk) ==
    LET changed_files == PythonPaths(GetDiffs(w).value)
    IN  Range(changed_files) \cap
        {d.b_path : d \in Range(GetUnstaged(idx,
                                    Isort(w, Range(IsortArgv(changed_files)), wk)))}

\* ImportOrderQACheck._run_check; ord is the order the set of wrong files
\* is iterated in by '\n'.join.
ImportOrderRunCheck(w, idx, wk, r, ord) ==
    LET diffs == GetDiffs(w)
        changed_files == PythonPaths(diffs.value)
        res == RunCommand(r)
        after == Isort(w, Range(IsortArgv(changed_files)), wk)
        wrong_import_order_files == WrongImportOrderFiles(w, idx, wk)
    IN  IF diffs.raised.kind # "none" THEN CheckResult(diffs.raised, wk, <<"get_diffs">>)
        ELSE IF changed_files = <<>> THEN CheckResult(NoExc, wk, <<"get_diffs">>)
        ELSE IF res.raised.kind # "none"
        THEN CheckResult(res.raised, wk, <<"get_diffs", r.name>>)
        ELSE IF wrong_import_order_files # {}
        THEN CheckResult(QAError("Found unsorted import(s) in following files:",
                                 JoinLines(ord)), after,
                         <<"get_diffs", r.name, "get_unstaged">>)
        ELSE CheckResult(NoExc, after, <<"get_diffs", r.name, "get_unstaged">>)

\* ------------------------------------------------------------------ state
VARIABLES
    world,          \* the environment of the run (see World)
    checks,         \* QACheckRunner.checks: the variants, in order
    run_no,         \* 1 for the first invocation of the runner, 2 for the next
    pc,             \* where the runner (and the check it is running) stands
    i,              \* the loop index of QACheckRunner.run, from 1
    failed_checks,  \* QACheckRunner.run's failed_checks (indices into checks)
    exc,            \* the exception in flight, NoExc when there is none
    exit_code,      \* the code handed to exit(), -1 while none was
    summary,        \* the summary line printed: its kind and its count
    index,          \* the git index: content of each tracked file
    work,           \* the working tree: content of each tracked file
    stash,          \* the stash, latest entry first
    cmd,            \* the last command the running check executed
    cmd_failed,     \* the checks one of whose commands exited non-zero
    ops,            \* commands and repository reads of the running check
    log,            \* what the runner printed for each check: OK or ERROR
    invoked,        \* the checks whose run() the runner has called, in order
    ran,            \* the checks whose _run_check was called
    cleaned,        \* the checks whose _cleanup was called
    outcomes,       \* how each run() ended: the kind of exception it raised
    raised_by_check,\* the exception the running check's _run_check raised
    found,          \* index and working tree as run() of the running check found them
    first           \* log, outcomes and exit code of the first invocation

vars == <<world, checks, run_no, pc, i, failed_checks, exc, exit_code, summary,
          index, work, stash, cmd, cmd_failed, ops, log, invoked, ran, cleaned, outcomes,
          raised_by_check, found, first>>

runner_vars == <<failed_checks, exit_code, summary, log>>
repo_vars == <<index, stash>>
fixed_vars == <<world, checks, run_no, first>>

NoSummary == [kind |-> "none", count |-> 0]
NoFirst == [log |-> <<>>, outcomes |-> <<>>, exit_code |-> -1, pc |-> "none"]

Init ==
    /\ world \in Worlds
    /\ checks \in CheckLists
    /\ run_no = 1
    /\ pc = "loop"
    /\ i = 1
    /\ failed_checks = <<>>
    /\ exc = NoExc
    /\ exit_code = -1
    /\ summary = NoSummary
    /\ index = InitialIndex(world)
    /\ work = InitialWork(world)
    /\ stash = <<>>
    /\ cmd = NoCommand
    /\ cmd_failed = {}
    /\ ops = <<>>
    /\ log = <<>>
    /\ invoked = <<>>
    /\ ran = {}
    /\ cleaned = {}
    /\ outcomes = <<>>
    /\ raised_by_check = NoExc
    /\ found = [index |-> InitialIndex(world), work |-> InitialWork(world)]
    /\ first = NoFirst

\* ---------------------------------------------------------- QACheck.run
\* run() with _cleanup in a `finally` clause: it follows _run_check on
\* every path.
AfterRunCheckFinally(e) == "cleanup"

\* QACheck.run: `self._run_check()` then `self._cleanup()`, with no handler
\* around either: an exception of _run_check leaves run() at once.
AfterRunCheck(e) == IF e.kind = "none" THEN "cleanup" ELSE "raised"

\* The exception that leaves run() when _cleanup ends with exception c
\* while p is pending.
AfterCleanup(p, c) == IF c.kind # "none" THEN c ELSE p

\* _run_check of the running check returned or raised.
CheckEnds(res, r) ==
    /\ exc' = res.exc
    /\ raised_by_check' = res.exc
    /\ work' = res.work
    /\ ops' = res.ops
    /\ cmd' = r
    /\ cmd_failed' = IF r.exit # 0 THEN cmd_failed \cup {i} ELSE cmd_failed
    /\ ran' = ran \cup {i}
    /\ pc' = AfterRunCheck(res.exc)
    /\ outcomes' = IF AfterRunCheck(res.exc) = "raised"
                   THEN Append(outcomes, res.exc.kind) ELSE outcomes
    /\ UNCHANGED <<fixed_vars, runner_vars, repo_vars, i, invoked, cleaned, found>>

MissingMigrations_run_check ==
    /\ pc = "run_check" /\ checks[i] = "MissingMigrations"
    /\ \E r \in CommandRuns(world, "make-migration") :
           CheckEnds(MissingMigrationsRunCheck(work, r), r)

MigrationFilenames_run_check ==
    /\ pc = "run_check" /\ checks[i] = "MigrationFilenames"
    /\ CheckEnds(MigrationFilenamesRunCheck(world, work), NoCommand)

MissingTranslations_run_check ==
    /\ pc = "run_check" /\ checks[i] = "MissingTranslations"
    /\ \E r \in CommandRuns(world, "make-msgs") :
           CheckEnds(MissingTranslationsRunCheck(world, index, work, r), r)

ImportOrder_run_check ==
    /\ pc = "run_check" /\ checks[i] = "ImportOrder"
    /\ \E r \in CommandRuns(world, "isort") :
       \E ord \in Orderings(WrongImportOrderFiles(world, index, work)) :
           LET res == ImportOrderRunCheck(world, index, work, r, ord)
               argv == IsortArgv(PythonPaths(GetDiffs(world).value))
           IN  CheckEnds(res, IF "isort" \in Range(res.ops)
                              THEN WithArgv(r, argv) ELSE NoCommand)

\* QACheck._cleanup: self._get_repo().git.stash('save'); a failing git
\* command raises GitCommandError.
QACheck_cleanup ==
    /\ pc = "cleanup"
    /\ LET c == IF world.stashOk THEN NoExc ELSE OtherError("GitCommandError")
           s == IF world.stashOk THEN StashSave(index, work, stash)
                ELSE [index |-> index, work |-> work, stash |-> stash]
           e == AfterCleanup(exc, c)
       IN  /\ index' = s.index /\ work' = s.work /\ stash' = s.stash
           /\ exc' = e
           /\ pc' = IF e.kind = "none" THEN "returned" ELSE "raised"
           /\ outcomes' = Append(outcomes, e.kind)
    /\ cleaned' = cleaned \cup {i}
    /\ UNCHANGED <<fixed_vars, runner_vars, i, cmd, cmd_failed, ops, invoked, ran,
                   raised_by_check, found>>

\* ------------------------------------------------------ QACheckRunner.run
\* for i, check in enumerate(self.checks): print_heading(...); check.run()
Runner_next_check ==
    /\ pc = "loop" /\ i <= Len(checks)
    /\ pc' = "run_check"
    /\ invoked' = Append(invoked, i)
    /\ found' = [index |-> index, work |-> work]
    /\ cmd' = NoCommand
    /\ ops' = <<>>
    /\ raised_by_check' = NoExc
    /\ UNCHANGED <<fixed_vars, runner_vars, repo_vars, work, i, exc, cmd_failed, ran,
                   cleaned, outcomes>>

\* `except QAError as ex`
Catches(e) == e.kind = "QAError"

Runner_except ==
    /\ pc = "raised" /\ Catches(exc)
    /\ failed_checks' = Append(failed_checks, i)
    /\ log' = Append(log, "ERROR")
    /\ exc' = NoExc
    /\ i' = i + 1
    /\ pc' = "loop"
    /\ UNCHANGED <<fixed_vars, repo_vars, work, exit_code, summary, cmd, cmd_failed, ops,
                   invoked, ran, cleaned, outcomes, raised_by_check, found>>

\* `else: print_success('OK')`
Runner_else ==
    /\ pc = "returned"
    /\ log' = Append(log, "OK")
    /\ i' = i + 1
    /\ pc' = "loop"
    /\ UNCHANGED <<fixed_vars, repo_vars, work, failed_checks, exit_code, summary, exc,
                   cmd, cmd_failed, ops, invoked, ran, cleaned, outcomes, raised_by_check,
                   found>>

\* An exception that is no QAError leaves QACheckRunner.run: the process
\* ends with a traceback, nothing more of run() is executed.
Runner_uncaught ==
    /\ pc = "raised" /\ ~Catches(exc)
    /\ pc' = "crashed"
    /\ UNCHANGED <<fixed_vars, runner_vars, repo_vars, work, i, exc, cmd, cmd_failed, ops,
                   invoked, ran, cleaned, outcomes, raised_by_check, found>>

\* The summary with the exit code of the failure branch left at 0.
SummaryExitZero(failed) ==
    IF failed # <<>>
    THEN [kind |-> "FAILURE", count |-> Len(failed), exit_code |-> 0]
    ELSE [kind |-> "SUCCESS", count |-> 0, exit_code |-> 0]

\* The summary after the loop.
Summary(failed) ==
    IF failed # <<>>
    THEN [kind |-> "FAILURE", count |-> Len(failed), exit_code |-> 1]
    ELSE [kind |-> "SUCCESS", count |-> 0, exit_code |-> 0]

Runner_summary ==
    /\ pc = "loop" /\ i > Len(checks)
    /\ summary' = [kind |-> Summary(failed_checks).kind, count |-> Summary(failed_checks).count]
    /\ exit_code' = Summary(failed_checks).exit_code
    /\ pc' = "exited"
    /\ UNCHANGED <<fixed_vars, repo_vars, work, i, failed_checks, log, exc, cmd,
                   cmd_failed, ops, invoked, ran, cleaned, outcomes, raised_by_check, found>>

\* The command is invoked a second time, on the repository as the first
\* invocation left it, with fresh instances of the same checks.
Invoke_again ==
    /\ pc \in {"exited", "crashed"} /\ run_no = 1
    /\ run_no' = 2
    /\ first' = [log |-> log, outcomes |-> outcomes, exit_code |-> exit_code, pc |-> pc]
    /\ pc' = "loop"
    /\ i' = 1
    /\ failed_checks' = <<>>
    /\ exc' = NoExc
    /\ exit_code' = -1
    /\ summary' = NoSummary
    /\ cmd' = NoCommand
    /\ cmd_failed' = {}
    /\ ops' = <<>>
    /\ log' = <<>>
    /\ invoked' = <<>>
    /\ ran' = {}
    /\ cleaned' = {}
    /\ outcomes' = <<>>
    /\ raised_by_check' = NoExc
    /\ found' = [index |-> index, work |-> work]
    /\ UNCHANGED <<world, checks, repo_vars, work>>

\* The status the process ends with: the argument of exit(), or 1 when an
\* uncaught exception ends it with a traceback.
ProcessStatus == IF pc = "crashed" THEN 1 ELSE exit_code

Next ==
    \/ Runner_next_check
    \/ MissingMigrations_run_check
    \/ MigrationFilenames_run_check
    \/ MissingTranslations_run_check
    \/ ImportOrder_run_check
    \/ QACheck_cleanup
    \/ Runner_except
    \/ Runner_else
    \/ Runner_uncaught
    \/ Runner_summary
    \/ Invoke_again

Spec == Init /\ [][Next]_vars

\* ----------------------------------------------------------------- claims
Finished == pc \in {"exited", "crashed"}
AllIndices == [k \in 1..Len(checks) |-> k]

\* C1: the runner calls run() on every check of the collection exactly
\* once, in collection order, whatever happened to earlier checks: the
\* calls made so far are 1, 2, ... in order, and when the runner has ended
\* they are all of them.
C1_EveryCheckRunOnceInOrder ==
    /\ invoked = [k \in 1..Len(invoked) |-> k]
    /\ Finished => invoked = AllIndices

\* The number of checks whose run() raised a check failure.
FailedCount == Cardinality({k \in 1..Len(outcomes) : outcomes[k] = "QAError"})

\* C2: once the runner has run all the checks, with no failed check it
\* prints the success summary and signals exit code 0, with N >= 1 failed
\* checks it signals exit code 1 and the summary reports N failures.
C2_ExitCodeAndFailureCount ==
    pc = "exited" =>
        /\ Len(outcomes) = Len(checks)
        /\ FailedCount = 0 => (exit_code = 0 /\ summary = [kind |-> "SUCCESS", count |-> 0])
        /\ FailedCount >= 1 =>
               (exit_code = 1 /\ summary = [kind |-> "FAILURE", count |-> FailedCount])

C2_Witness ==
    /\ pc = "exited" /\ Len(checks) = 2 /\ FailedCount = 1
    /\ exit_code = 1 /\ summary.count = 1

\* C3: when run() of a check has ended, returning or raising, and its
\* _run_check was called, its _cleanup was called too.
C3_CleanupAfterCheckOnEveryPath ==
    (pc \in {"returned", "raised"} /\ i \in ran) => i \in cleaned

\* C4: when run() of a check has ended, returning or raising, index and
\* working tree are as run() found them.
C4_WorkingCopyAsFound ==
    pc \in {"returned", "raised"} => (index = found.index /\ work = found.work)

VcsErrors == {"AttributeError", "IndexError"}

\* C5: a version-control error inside a check's _get_diffs aborts only that
\* check: once the runner has ended, that check is recorded as failed, every
\* check was run, and the process ends with exit code 1.
C5_VcsErrorAbortsOnlyItsCheck ==
    \A k \in 1..Len(outcomes) :
        (outcomes[k] \in VcsErrors /\ Finished) =>
            /\ k \in Range(failed_checks)
            /\ invoked = AllIndices
            /\ ProcessStatus = 1

\* C6: a failing cleanup step is not fatal to the run: once the runner has
\* ended, every check was run and the process ends with an exit code.
C6_CleanupFailureNotFatal ==
    \A k \in 1..Len(outcomes) :
        (outcomes[k] = "GitCommandError" /\ Finished) =>
            (invoked = AllIndices /\ ProcessStatus \in {0, 1})

\* C7: when _run_check raised the check failure F, the exception that
\* leaves run() for the runner is F, message and output, whether or not
\* the stash works.
C7_OriginalFailurePropagates ==
    (pc = "raised" /\ raised_by_check.kind = "QAError") => exc = raised_by_check

C7_Witness ==
    /\ pc = "raised" /\ raised_by_check.kind = "QAError"
    /\ raised_by_check.output # <<>>
    /\ ~world.stashOk
    /\ exc = raised_by_check

\* t is s without its leading and trailing whitespace, the rest unchanged.
IsStripped(t, s) ==
    /\ t = <<>> \/ (t[1] \notin Whitespace /\ t[Len(t)] \notin Whitespace)
    /\ \E a \in 0..Len(s) :
           /\ a + Len(t) <= Len(s)
           /\ SubSeq(s, a + 1, a + Len(t)) = t
           /\ \A k \in 1..Len(s) : (k <= a \/ k > a + Len(t)) => s[k] \in Whitespace

\* C8 as stated: a command exiting non-zero makes the check fail with a
\* QAError whose output is the captured output verbatim.
C8_CommandOutputVerbatim ==
    (pc = "raised" /\ cmd.exit # 0) => (exc.kind = "QAError" /\ exc.output = cmd.out)

\* C8 as amended: a command exiting non-zero makes the check fail with a
\* QAError whose output is the captured output with leading and trailing
\* whitespace removed; the runner records the check as failed and goes on
\* with the next check.
C8_CommandFailureIsCheckFailure ==
    /\ (pc = "raised" /\ cmd.exit # 0) =>
           (exc.kind = "QAError" /\ IsStripped(exc.output, cmd.out))
    /\ \A k \in cmd_failed :
           /\ k < i => (k \in Range(failed_checks) /\ log[k] = "ERROR")
           /\ (Finished /\ k < Len(checks)) => k + 1 \in Range(invoked)

C8_Witness ==
    /\ Finished /\ Len(checks) = 2
    /\ 1 \in cmd_failed /\ 1 \in Range(failed_checks)
    /\ invoked = <<1, 2>>

\* How run() of a check of the given variant ends when it is the only
\* check run on index idx and working tree wk: the kind of exception.
AloneOutcome(variant, w, idx, wk) ==
    LET res ==
            CASE variant = "MissingMigrations" ->
                     MissingMigrationsRunCheck(wk, CHOOSE r \in CommandRuns(w, "make-migration") : TRUE)
              [] variant = "MigrationFilenames" -> MigrationFilenamesRunCheck(w, wk)
              [] variant = "MissingTranslations" ->
                     MissingTranslationsRunCheck(w, idx, wk, CHOOSE r \in CommandRuns(w, "make-msgs") : TRUE)
              [] variant = "ImportOrder" ->
                     ImportOrderRunCheck(w, idx, wk, CHOOSE r \in CommandRuns(w, "isort") : TRUE,
                                         CHOOSE o \in Orderings(WrongImportOrderFiles(w, idx, wk)) : TRUE)
    IN  IF AfterRunCheck(res.exc) = "raised" THEN res.exc.kind
        ELSE AfterCleanup(res.exc, IF w.stashOk THEN NoExc
                                   ELSE OtherError("GitCommandError")).kind

\* C9: whatever the order of the collection, each check the runner has run
\* passed if and only if that check passes when run alone on the repository
\* as the runner found it.
C9_OutcomeAsWhenRunAlone ==
    run_no = 1 =>
        \A k \in 1..Len(outcomes) :
            (outcomes[k] = "none") <=>
                (AloneOutcome(checks[k], world, InitialIndex(world), InitialWork(world)) = "none")

\* C10: the second of two successive invocations of the runner gives every
\* check the outcome the first gave it.
C10_SecondRunSameOutcomes ==
    (run_no = 2 /\ Finished) => (log = first.log /\ outcomes = first.outcomes)

\* _run_check of the running check has just ended, raising or returning.
JustRan(variant) ==
    /\ pc \in {"cleanup", "raised"}
    /\ i \in ran /\ i \notin cleaned
    /\ checks[i] = variant

\* A path of a file of a directory named `migrations`, and the file's name
\* without the extension .py.
InMigrationsDirectory(path) ==
    /\ Len(path) >= 4
    /\ path[Len(path)] = ".py"
    /\ \E k \in 1..(Len(path) - 3) :
           /\ path[k] = "migrations" /\ path[k + 1] = "/"
           /\ k = 1 \/ path[k - 1] = "/"
           /\ \A j \in (k + 2)..(Len(path) - 1) : path[j] # "/"

RECURSIVE NameOf(_)
NameOf(path) ==
    IF path = <<>> \/ path[Len(path)] = "/" THEN <<>>
    ELSE Append(NameOf(SubSeq(path, 1, Len(path) - 1)), path[Len(path)])

FourDigits(name) == Len(name) = 4 /\ \A j \in 1..4 : name[j] \in Digits

RECURSIVE OffendingMigrations(_)
OffendingMigrations(diffs) ==
    IF diffs = <<>> THEN <<>>
    ELSE LET p == Head(diffs).b_path
         IN  (IF /\ Head(diffs).new_file
                 /\ InMigrationsDirectory(p)
                 /\ ~FourDigits(SubSeq(NameOf(p), 1, Len(NameOf(p)) - 1))
              THEN <<p>> ELSE <<>>) \o OffendingMigrations(Tail(diffs))

\* C11: the migration-filenames check fails if and only if the diff holds a
\* newly added file of a migrations directory whose name without .py is not
\* exactly four digits, and its output lists exactly those paths.
C11_FailsExactlyOnWrongNewMigrations ==
    (JustRan("MigrationFilenames") /\ world.vcs = "ok") =>
        LET off == OffendingMigrations(world.diff)
        IN  /\ (raised_by_check.kind = "QAError") <=> (off # <<>>)
            /\ off # <<>> => raised_by_check.output = JoinLines(off)

\* The changed source files of the branch, and those of them whose content
\* the sorter changed in the working tree the running check found.
ChangedSources == Range(PythonPaths(world.diff))
ModifiedBySorter == {f \in ChangedSources : work[f] # found.work[f]}

\* C12: whatever the changed source files and the working copy, the
\* import-order check fails if and only if the sorter modified at least one
\* changed source file, and then lists exactly the files it modified.
C12_FailsExactlyOnFilesSorterModified ==
    (JustRan("ImportOrder") /\ world.vcs = "ok" /\ cmd.exit = 0) =>
        /\ (raised_by_check.kind = "QAError") <=> (ModifiedBySorter # {})
        /\ ModifiedBySorter # {} =>
               \E ord \in Orderings(ModifiedBySorter) :
                   raised_by_check.output = JoinLines(ord)

\* A patch with a line that starts with +msgid, -msgid, +msgstr or -msgstr.
HasEntryLine(text) ==
    \E k \in 1..(Len(text) - 1) :
        /\ k = 1 \/ text[k - 1] = NL
        /\ text[k] \in {"+", "-"}
        /\ text[k + 1] \in {"msgstr", "msgid"}

\* C13: after the catalog regeneration, the missing-translations check fails
\* if and only if an unstaged diff entry whose path ends in django.po has a
\* patch line that adds or removes a msgid or msgstr entry; a patch that
\* changes comment lines only does not fail it.
C13_FailsExactlyOnEntryLines ==
    (JustRan("MissingTranslations") /\ cmd.exit = 0) =>
        ((raised_by_check.kind = "QAError") <=>
            \E d \in Range(GetUnstaged(index, work)) :
                /\ d.b_path[Len(d.b_path)] = "django.po"
                /\ HasEntryLine(d.diff))

\* The last line of a text as the command wrote it: what follows the last
\* newline that is not the final character.
TextLastLine(t) ==
    LET body == IF t # <<>> /\ t[Len(t)] = NL THEN SubSeq(t, 1, Len(t) - 1) ELSE t
        starts == {k \in 1..(Len(body) + 1) :
                       /\ k = 1 \/ body[k - 1] = NL
                       /\ \A j \in k..Len(body) : body[j] # NL}
    IN  SubSeq(body, CHOOSE k \in starts : TRUE, Len(body))

\* The last line of t is the sentinel.
EndsWithSentinelLine(t) ==
    /\ t # <<>> /\ t[Len(t)] = SENTINEL
    /\ Len(t) = 1 \/ t[Len(t) - 1] = NL

ToolContents == Contents \ {"head", "dev"}

\* C15: when a check after the first begins its _run_check, the working
\* copy holds no uncommitted change left behind by the check before it,
\* whether that check passed or failed.
C15_NextCheckStartsOnFreshRepo ==
    (pc = "run_check" /\ i > 1) =>
        \A f \in TrackedFiles : work[f] \notin ToolContents /\ index[f] \notin ToolContents

RECURSIVE Count(_, _)
Count(c, text) ==
    IF text = <<>> THEN 0
    ELSE Count(c, Tail(text)) + (IF Head(text) = c THEN 1 ELSE 0)

\* C16: when a command exits non-zero, the failure raised carries the
\* command's combined output: what it wrote to its standard output and
\* what it wrote to its standard error.
C16_FailureCarriesCombinedOutput ==
    (pc = "raised" /\ cmd.exit # 0) =>
        /\ exc.kind = "QAError"
        /\ \A c \in Alphabet \ Whitespace :
               Count(c, exc.output) = Count(c, cmd.out) + Count(c, cmd.err)

\* C17: with no origin or no symbolic HEAD of it (the symbolic-ref stage
\* fails), _get_default_branch fails with an error and returns no branch
\* name, the empty string included.
C17_DefaultBranchFailsWithoutOriginHead ==
    ("get_diffs" \in Range(ops) /\ SymbolicRef(world).exit # 0) =>
        GetDefaultBranch(world).raised.kind # "none"

\* The positions of an operation among those of the running check.
Positions(op) == {k \in 1..Len(ops) : ops[k] = op}

\* C18: with no source file in the diff the import-order check passes
\* without starting the sorter and without reading the unstaged diff; with
\* at least one, the sorter is started exactly once, over exactly the
\* changed source files, before the unstaged diff is read.
C18_SorterOnceOverChangedFilesBeforeUnstaged ==
    (JustRan("ImportOrder") /\ world.vcs = "ok") =>
        IF ChangedSources = {}
        THEN /\ raised_by_check.kind = "none"
             /\ Positions("isort") = {} /\ Positions("get_unstaged") = {}
        ELSE /\ Cardinality(Positions("isort")) = 1
             /\ cmd.name = "isort" /\ Range(cmd.argv) = ChangedSources
             /\ \A u \in Positions("get_unstaged"), s \in Positions("isort") : s < u

\* C19: when run() of a check returns without raising, no tracked file has
\* an uncommitted change, staged or not; every change that was there before
\* the check, the developer's own included, is in the stash; and the runner
\* never brings it back from there.
C19_ReturnLeavesCleanTreeChangesStashed ==
    /\ pc = "returned" =>
           /\ index = Clean /\ work = Clean
           /\ (found.index # Clean \/ found.work # Clean) =>
                  /\ stash # <<>>
                  /\ \A f \in TrackedFiles :
                         /\ found.index[f] # "head" => stash[1].index[f] = found.index[f]
                         /\ found.work[f] # "head" => stash[1].work[f] # "head"
    /\ (stash # <<>> /\ world.dev # "none") =>
           /\ stash[Len(stash)].index = InitialIndex(world)
           /\ stash[Len(stash)].work[PyA] = "dev"
           /\ index[PyA] # "dev" /\ work[PyA] # "dev"

C19_Witness ==
    /\ pc = "returned"
    /\ world.dev = "staged" /\ found.index[PyA] = "dev"
    /\ found.work[PyB] = "isorted"
    /\ Len(stash) = 1 /\ stash[1].work[PyB] = "isorted"
====
